---- MODULE Spec2Model ----
(***************************************************************************)
(* Model of src/main.py: a Flask service that reads the `users` collection *)
(* of a MongoDB database and returns it as an Excel attachment.            *)
(*                                                                         *)
(* Python values are tagged records [t |-> <type name>, v |-> <payload>].  *)
(* A Python str is a sequence of one-character strings, so that str(),     *)
(* datetime.isoformat() and the comparisons of the handler are computed    *)
(* character by character and not assumed.                                 *)
(***************************************************************************)
EXTENDS Integers, Sequences, FiniteSets, TLC

VARIABLES
    MONGO_URI,   \* os.getenv("MONGO_URI"): a Python str or None
    mainPc,      \* position of the module-level code (lines 33-53)
    client,      \* the module-level MongoClient: "unset" or "constructed"
    routes,      \* the URL rules registered on app so far
    collection,  \* the documents stored in db[COLLECTION_NAME], in storage order
    dbOps,       \* the operations this process has issued on the collection
    writes,      \* number of changes other database clients have made
    served,      \* number of requests dispatched so far
    wpc,         \* per worker: position inside the view function
    cursor,      \* per worker: local `cursor` (the records not yet yielded)
    rows,        \* per worker: local `rows`
    df,          \* per worker: local `df`
    output,      \* per worker: local `output`
    response,    \* per worker: the last response sent
    found,       \* per worker: the records its last find returned
    fetched,     \* per worker: the records the cursor has yielded in this request
    reads        \* per worker: the finds issued for this request

vars == <<MONGO_URI, mainPc, client, routes, collection, dbOps, writes, served,
          wpc, cursor, rows, df, output, response, found, fetched, reads>>

(***************************************************************************)
(* Bounds of the model.                                                    *)
(***************************************************************************)
MaxDocs == 2       \* longest collection
MaxRequests == 2   \* requests dispatched in one run
MaxWrites == 1     \* changes made by other database clients in one run

Workers == {"w1", "w2"}

(***************************************************************************)
(* Python values.                                                          *)
(***************************************************************************)
PyNone == [t |-> "NoneType"]
PyStr(s) == [t |-> "str", v |-> s]
PyInt(n) == [t |-> "int", v |-> n]
PyBool(b) == [t |-> "bool", v |-> b]
PyList(xs) == [t |-> "list", v |-> xs]
PyDatetime(y, mo, d, h, mi, s, us) ==
    [t |-> "datetime",
     v |-> [year |-> y, month |-> mo, day |-> d, hour |-> h, minute |-> mi,
            second |-> s, microsecond |-> us]]

EmptyStr == PyStr(<<>>)

\* isinstance(x, datetime)
IsDatetime(x) == x.t = "datetime"

\* isinstance(x, str)
IsStr(x) == x.t = "str"

\* bool(x): Python truthiness, as `not MONGO_URI` uses it
Truthy(x) ==
    CASE x.t = "NoneType" -> FALSE
      [] x.t = "str" -> Len(x.v) > 0
      [] x.t = "int" -> x.v # 0
      [] x.t = "bool" -> x.v
      [] x.t = "list" -> Len(x.v) > 0
      [] OTHER -> TRUE

\* the numeric value of an int or a bool (bool is a subclass of int)
NumVal(x) == IF x.t = "bool" THEN (IF x.v THEN 1 ELSE 0) ELSE x.v

IsNumber(x) == x.t \in {"int", "bool"}

\* a == b
PyEq(a, b) ==
    IF IsNumber(a) /\ IsNumber(b) THEN NumVal(a) = NumVal(b)
    ELSE IF a.t = b.t THEN a = b
    ELSE FALSE

\* x in xs, for a tuple xs: identity or equality with some element
PyIn(x, xs) == \E i \in 1..Len(xs) : PyEq(x, xs[i])

(***************************************************************************)
(* str(), repr() and datetime.isoformat().                                 *)
(***************************************************************************)
Digits == <<"0", "1", "2", "3", "4", "5", "6", "7", "8", "9">>

RECURSIVE NatToStr(_)
NatToStr(n) ==
    IF n < 10 THEN <<Digits[n + 1]>>
    ELSE NatToStr(n \div 10) \o <<Digits[(n % 10) + 1]>>

IntToStr(n) == IF n < 0 THEN <<"-">> \o NatToStr(0 - n) ELSE NatToStr(n)

\* "%0<w>d" % n
RECURSIVE ZeroPad(_, _)
ZeroPad(n, w) ==
    IF w = 0 THEN <<>>
    ELSE ZeroPad(n \div 10, w - 1) \o <<Digits[(n % 10) + 1]>>

\* datetime.isoformat(sep) of a naive datetime
IsoFormat(d, sep) ==
    ZeroPad(d.year, 4) \o <<"-">> \o ZeroPad(d.month, 2) \o <<"-">> \o
    ZeroPad(d.day, 2) \o <<sep>> \o
    ZeroPad(d.hour, 2) \o <<":">> \o ZeroPad(d.minute, 2) \o <<":">> \o
    ZeroPad(d.second, 2) \o
    (IF d.microsecond # 0 THEN <<".">> \o ZeroPad(d.microsecond, 6) ELSE <<>>)

RECURSIVE JoinRepr(_, _)
\* repr(x), for the values a list of the model holds
PyRepr(x) ==
    CASE x.t = "NoneType" -> <<"N", "o", "n", "e">>
      [] x.t = "str" -> <<"'">> \o x.v \o <<"'">>
      [] x.t = "int" -> IntToStr(x.v)
      [] x.t = "bool" -> IF x.v THEN <<"T", "r", "u", "e">>
                                ELSE <<"F", "a", "l", "s", "e">>
      [] OTHER -> <<"?">>

JoinRepr(xs, i) ==
    IF i > Len(xs) THEN <<>>
    ELSE (IF i > 1 THEN <<",", " ">> ELSE <<>>) \o PyRepr(xs[i]) \o JoinRepr(xs, i + 1)

\* str(x)
PyStrOf(x) ==
    CASE x.t = "str" -> x.v
      [] x.t = "list" -> <<"[">> \o JoinRepr(x.v, 1) \o <<"]">>
      [] x.t = "datetime" -> IsoFormat(x.v, " ")
      [] OTHER -> PyRepr(x)

(***************************************************************************)
(* Documents: a document is a function from its keys to Python values.     *)
(***************************************************************************)
\* doc.get(key, default)
Get(doc, key, default) == IF key \in DOMAIN doc THEN doc[key] ELSE default

\* line 57
projection == [email |-> 1, fullname |-> 1, whatsapp |-> 1, registration |-> 1, _id |-> 0]

\* what the server returns of a stored document under an inclusion projection
\* (_id is returned unless the projection excludes it)
ProjectDoc(doc, proj) ==
    LET keep == {k \in DOMAIN doc :
                    IF k \in DOMAIN proj THEN proj[k] = 1 ELSE k = "_id"}
    IN  [k \in keep |-> doc[k]]

\* the documents find(filter, proj) returns: filter {} matches every document
FindDocs(coll, filter, proj) ==
    LET hits == SelectSeq(coll, LAMBDA d : \A k \in DOMAIN filter :
                                   k \in DOMAIN d /\ PyEq(d[k], filter[k]))
    IN  [i \in 1..Len(hits) |-> ProjectDoc(hits[i], proj)]

\* lines 69-73
NormalizeRegistrationSwapped(reg) ==
    IF ~PyIn(reg, <<PyNone, EmptyStr>>) THEN PyStr(PyStrOf(reg))
    ELSE IF IsDatetime(reg) THEN PyStr(IsoFormat(reg.v, "T"))
    ELSE EmptyStr

NormalizeRegistrationTruthy(reg) ==
    IF IsDatetime(reg) THEN PyStr(IsoFormat(reg.v, "T"))
    ELSE IF Truthy(reg) THEN PyStr(PyStrOf(reg)) ELSE EmptyStr

NormalizeRegistrationNoGuard(reg) ==
    IF IsDatetime(reg) THEN PyStr(IsoFormat(reg.v, "T"))
    ELSE PyStr(PyStrOf(reg))

NormalizeRegistration(reg) ==
    IF IsDatetime(reg) THEN PyStr(IsoFormat(reg.v, "T"))
    ELSE IF ~PyIn(reg, <<PyNone, EmptyStr>>) THEN PyStr(PyStrOf(reg))
    ELSE EmptyStr

\* lines 64-66: doc.get(key, "")
GetFieldOrEmpty(doc, key) ==
    IF Truthy(Get(doc, key, EmptyStr)) THEN Get(doc, key, EmptyStr) ELSE EmptyStr

GetField(doc, key) == Get(doc, key, EmptyStr)

\* lines 64-80: the dict appended to rows for one document
NormalizeDoc(doc) ==
    [email |-> GetField(doc, "email"),
     fullname |-> GetField(doc, "fullname"),
     whatsapp |-> GetField(doc, "whatsapp"),
     registration |-> NormalizeRegistration(Get(doc, "registration", EmptyStr))]


(***************************************************************************)
(* pandas: DataFrame(rows, columns=...) and DataFrame.to_excel().          *)
(***************************************************************************)
\* line 83
columns == <<"email", "fullname", "whatsapp", "registration">>

\* pd.DataFrame(rs, columns=cols): one data row per dict, cells in column order
DataFrame(rs, cols) ==
    [columns |-> cols,
     data |-> [i \in 1..Len(rs) |-> [j \in 1..Len(cols) |-> rs[i][cols[j]]]]]

\* a cell as to_excel writes it: a missing value is written as na_rep = ""
CellOf(x) == IF x = PyNone THEN EmptyStr ELSE x

\* lines 86-89: df.to_excel(writer, index=False, sheet_name="users")
ToExcel(frame, sheet_name) ==
    [sheets |-> <<sheet_name>>,
     header |-> frame.columns,
     cells |-> [i \in 1..Len(frame.data) |->
                  [j \in 1..Len(frame.columns) |-> CellOf(frame.data[i][j])]]]

(***************************************************************************)
(* The stored documents the runs draw from.                                *)
(***************************************************************************)
strA == <<"a", "@", "x", ".", "c", "o", "m">>
strB == <<"b", "@", "x", ".", "c", "o", "m">>
strC == <<"c", "@", "x", ".", "c", "o", "m">>

docA == [_id |-> PyInt(1), email |-> PyStr(strA), fullname |-> PyStr(<<"A">>),
         whatsapp |-> PyStr(<<"+", "1">>),
         registration |-> PyDatetime(2024, 1, 1, 0, 0, 0, 0)]
docB == [_id |-> PyInt(2), email |-> PyStr(strB)]
docC == [_id |-> PyInt(3), email |-> PyStr(strC), registration |-> PyInt(42),
         password |-> PyStr(<<"p", "w">>)]

StoredDocs == {docA, docB, docC}

RECURSIVE SeqsUpTo(_, _)
SeqsUpTo(S, n) ==
    IF n = 0 THEN {<<>>}
    ELSE LET shorter == SeqsUpTo(S, n - 1)
         IN  shorter \cup {Append(q, x) : q \in shorter, x \in S}

\* the values os.getenv("MONGO_URI") can return
UriValues == {PyNone, EmptyStr, PyStr(<<"m", "o", "n", "g", "o", "d", "b", ":", "/", "/", "h">>)}

(***************************************************************************)
(* State.                                                                  *)
(***************************************************************************)
Unbound == [t |-> "unbound"]

NoResponse == [status |-> 0, kind |-> "none"]

InitWorkers ==
    /\ wpc = [r \in Workers |-> "idle"]
    /\ cursor = [r \in Workers |-> Unbound]
    /\ rows = [r \in Workers |-> Unbound]
    /\ df = [r \in Workers |-> Unbound]
    /\ output = [r \in Workers |-> Unbound]
    /\ response = [r \in Workers |-> NoResponse]
    /\ found = [r \in Workers |-> <<>>]
    /\ fetched = [r \in Workers |-> <<>>]
    /\ reads = [r \in Workers |-> 0]

Init ==
    /\ MONGO_URI \in UriValues
    /\ mainPc = "load"
    /\ client = "unset"
    /\ routes = {}
    /\ collection \in SeqsUpTo(StoredDocs, MaxDocs)
    /\ dbOps = {}
    /\ writes = 0
    /\ served = 0
    /\ InitWorkers

(***************************************************************************)
(* Module-level code, lines 33-53.                                         *)
(***************************************************************************)
\* lines 33-37: load_dotenv() and the os.getenv calls
LoadEnv ==
    /\ mainPc = "load"
    /\ mainPc' = "check"
    /\ UNCHANGED <<MONGO_URI, client, routes, collection, dbOps, writes, served,
                   wpc, cursor, rows, df, output, response, found, fetched, reads>>

\* lines 39-40
CheckUriNoRaise ==
    /\ mainPc = "check"
    /\ mainPc' = "connect"
    /\ UNCHANGED <<MONGO_URI, client, routes, collection, dbOps, writes, served,
                   wpc, cursor, rows, df, output, response, found, fetched, reads>>

CheckUri ==
    /\ mainPc = "check"
    /\ mainPc' = IF ~Truthy(MONGO_URI) THEN "crashed" ELSE "connect"
    /\ UNCHANGED <<MONGO_URI, client, routes, collection, dbOps, writes, served,
                   wpc, cursor, rows, df, output, response, found, fetched, reads>>

\* lines 43-47: MongoClient(MONGO_URI) is lazy, it performs no I/O here
Connect ==
    /\ mainPc = "connect"
    /\ client' = "constructed"
    /\ mainPc' = "route_index"
    /\ UNCHANGED <<MONGO_URI, routes, collection, dbOps, writes, served,
                   wpc, cursor, rows, df, output, response, found, fetched, reads>>

\* lines 49-51
RegisterIndex ==
    /\ mainPc = "route_index"
    /\ routes' = routes \cup {"/"}
    /\ mainPc' = "route_spreadsheet"
    /\ UNCHANGED <<MONGO_URI, client, collection, dbOps, writes, served,
                   wpc, cursor, rows, df, output, response, found, fetched, reads>>

\* lines 53-54, after which the module is imported and the server runs
RegisterSpreadsheet ==
    /\ mainPc = "route_spreadsheet"
    /\ routes' = routes \cup {"/spreadsheet"}
    /\ mainPc' = "serving"
    /\ UNCHANGED <<MONGO_URI, client, collection, dbOps, writes, served,
                   wpc, cursor, rows, df, output, response, found, fetched, reads>>


(***************************************************************************)
(* Requests.  A worker runs one view function at a time; several workers   *)
(* interleave.  A request can be dispatched once the module has been       *)
(* imported and only to a registered route.                                *)
(***************************************************************************)
CanDispatch(r, path) ==
    /\ mainPc = "serving"
    /\ path \in routes
    /\ wpc[r] = "idle"
    /\ served < MaxRequests

\* the framework's answer to an exception the view function lets escape
ServerError == [status |-> 500, kind |-> "error"]

\* lines 49-51: GET /
index(r) ==
    /\ CanDispatch(r, "/")
    /\ served' = served + 1
    /\ response' = [response EXCEPT ![r] =
                      [status |-> 200, kind |-> "json", body |-> "message"]]
    /\ UNCHANGED <<MONGO_URI, mainPc, client, routes, collection, dbOps, writes,
                   wpc, cursor, rows, df, output, found, fetched, reads>>

\* lines 53-57: GET /spreadsheet enters the view function with fresh locals
EnterSpreadsheet(r) ==
    /\ CanDispatch(r, "/spreadsheet")
    /\ served' = served + 1
    /\ wpc' = [wpc EXCEPT ![r] = "find"]
    /\ fetched' = [fetched EXCEPT ![r] = <<>>]
    /\ reads' = [reads EXCEPT ![r] = 0]
    /\ UNCHANGED <<MONGO_URI, mainPc, client, routes, collection, dbOps, writes,
                   cursor, rows, df, output, response, found>>

\* the operation line 59 issues
FindOp == [op |-> "find", filter |-> <<>>, projection |-> projection]

\* lines 59-61: the read succeeds
FindCached(r) ==
    /\ wpc[r] = "find"
    /\ cursor' = [cursor EXCEPT ![r] =
                    IF response[r].kind = "xlsx" THEN found[r]
                    ELSE FindDocs(collection, FindOp.filter, FindOp.projection)]
    /\ found' = [found EXCEPT ![r] = cursor'[r]]
    /\ dbOps' = dbOps \cup {FindOp}
    /\ reads' = [reads EXCEPT ![r] = @ + 1]
    /\ rows' = [rows EXCEPT ![r] = <<>>]
    /\ wpc' = [wpc EXCEPT ![r] = "loop"]
    /\ UNCHANGED <<MONGO_URI, mainPc, client, routes, collection, writes, served,
                   df, output, response, fetched>>

Find(r) ==
    /\ wpc[r] = "find"
    /\ cursor' = [cursor EXCEPT ![r] =
                    FindDocs(collection, FindOp.filter, FindOp.projection)]
    /\ found' = [found EXCEPT ![r] = cursor'[r]]
    /\ dbOps' = dbOps \cup {FindOp}
    /\ reads' = [reads EXCEPT ![r] = @ + 1]
    /\ rows' = [rows EXCEPT ![r] = <<>>]
    /\ wpc' = [wpc EXCEPT ![r] = "loop"]
    /\ UNCHANGED <<MONGO_URI, mainPc, client, routes, collection, writes, served,
                   df, output, response, fetched>>

\* the exception leaves the view function: its locals are gone, the framework
\* answers 500 and the worker is free again
Raise(r) ==
    /\ response' = [response EXCEPT ![r] = ServerError]
    /\ cursor' = [cursor EXCEPT ![r] = Unbound]
    /\ rows' = [rows EXCEPT ![r] = Unbound]
    /\ df' = [df EXCEPT ![r] = Unbound]
    /\ output' = [output EXCEPT ![r] = Unbound]
    /\ wpc' = [wpc EXCEPT ![r] = "idle"]

\* line 59: the database is unreachable when the read is issued
FindFailsRetry(r) ==
    /\ wpc[r] = "find"
    /\ dbOps' = dbOps \cup {FindOp}
    /\ reads' = [reads EXCEPT ![r] = @ + 1]
    /\ IF reads[r] = 0
       THEN UNCHANGED <<response, cursor, rows, df, output, wpc>>
       ELSE Raise(r)
    /\ UNCHANGED <<MONGO_URI, mainPc, client, routes, collection, writes, served,
                   found, fetched>>

FindFails(r) ==
    /\ wpc[r] = "find"
    /\ dbOps' = dbOps \cup {FindOp}
    /\ reads' = [reads EXCEPT ![r] = @ + 1]
    /\ Raise(r)
    /\ UNCHANGED <<MONGO_URI, mainPc, client, routes, collection, writes, served,
                   found, fetched>>

\* lines 62-80: one iteration of the loop
LoopNextShared(r) ==
    /\ wpc[r] = "loop"
    /\ cursor[r] # <<>>
    /\ LET doc == Head(cursor[r])
       IN  /\ rows' = [w \in Workers |->
                         IF wpc[w] \notin {"loop", "frame", "excel", "send"} THEN rows[w]
                         ELSE Append(rows[w], NormalizeDoc(doc))]
           /\ fetched' = [fetched EXCEPT ![r] = Append(@, doc)]
    /\ cursor' = [cursor EXCEPT ![r] = Tail(@)]
    /\ UNCHANGED <<MONGO_URI, mainPc, client, routes, collection, dbOps, writes,
                   served, wpc, df, output, response, found, reads>>

LoopNextPrepend(r) ==
    /\ wpc[r] = "loop"
    /\ cursor[r] # <<>>
    /\ LET doc == Head(cursor[r])
       IN  /\ rows' = [rows EXCEPT ![r] = <<NormalizeDoc(doc)>> \o @]
           /\ fetched' = [fetched EXCEPT ![r] = Append(@, doc)]
    /\ cursor' = [cursor EXCEPT ![r] = Tail(@)]
    /\ UNCHANGED <<MONGO_URI, mainPc, client, routes, collection, dbOps, writes,
                   served, wpc, df, output, response, found, reads>>

LoopNext(r) ==
    /\ wpc[r] = "loop"
    /\ cursor[r] # <<>>
    /\ LET doc == Head(cursor[r])
       IN  /\ rows' = [rows EXCEPT ![r] = Append(@, NormalizeDoc(doc))]
           /\ fetched' = [fetched EXCEPT ![r] = Append(@, doc)]
    /\ cursor' = [cursor EXCEPT ![r] = Tail(@)]
    /\ UNCHANGED <<MONGO_URI, mainPc, client, routes, collection, dbOps, writes,
                   served, wpc, df, output, response, found, reads>>

\* line 62: the database becomes unreachable while the cursor is iterated
LoopFails(r) ==
    /\ wpc[r] = "loop"
    /\ Raise(r)
    /\ UNCHANGED <<MONGO_URI, mainPc, client, routes, collection, dbOps, writes,
                   served, found, fetched, reads>>

\* line 62: the cursor is exhausted
LoopEnd(r) ==
    /\ wpc[r] = "loop"
    /\ cursor[r] = <<>>
    /\ wpc' = [wpc EXCEPT ![r] = "frame"]
    /\ UNCHANGED <<MONGO_URI, mainPc, client, routes, collection, dbOps, writes,
                   served, cursor, rows, df, output, response, found, fetched, reads>>

\* line 83
BuildFrame(r) ==
    /\ wpc[r] = "frame"
    /\ df' = [df EXCEPT ![r] = DataFrame(rows[r], columns)]
    /\ wpc' = [wpc EXCEPT ![r] = "excel"]
    /\ UNCHANGED <<MONGO_URI, mainPc, client, routes, collection, dbOps, writes,
                   served, cursor, rows, output, response, found, fetched, reads>>

\* lines 86-89
WriteExcel(r) ==
    /\ wpc[r] = "excel"
    /\ output' = [output EXCEPT ![r] = ToExcel(df[r], "users")]
    /\ wpc' = [wpc EXCEPT ![r] = "send"]
    /\ UNCHANGED <<MONGO_URI, mainPc, client, routes, collection, dbOps, writes,
                   served, cursor, rows, df, response, found, fetched, reads>>

\* lines 92-97: the response is sent and the locals are released
SendFile(r) ==
    /\ wpc[r] = "send"
    /\ response' = [response EXCEPT ![r] =
                      [status |-> 200, kind |-> "xlsx",
                       mimetype |-> "application/vnd.openxmlformats-officedocument.spreadsheetml.sheet",
                       as_attachment |-> TRUE, download_name |-> "users.xlsx",
                       body |-> output[r]]]
    /\ cursor' = [cursor EXCEPT ![r] = Unbound]
    /\ rows' = [rows EXCEPT ![r] = Unbound]
    /\ df' = [df EXCEPT ![r] = Unbound]
    /\ output' = [output EXCEPT ![r] = Unbound]
    /\ wpc' = [wpc EXCEPT ![r] = "idle"]
    /\ UNCHANGED <<MONGO_URI, mainPc, client, routes, collection, dbOps, writes,
                   served, found, fetched, reads>>

(***************************************************************************)
(* The other clients of the database: the collection is not this           *)
(* process's own, documents come and go while it serves.                   *)
(***************************************************************************)
DbInsert ==
    /\ writes < MaxWrites
    /\ Len(collection) < MaxDocs
    /\ \E d \in StoredDocs : collection' = Append(collection, d)
    /\ writes' = writes + 1
    /\ UNCHANGED <<MONGO_URI, mainPc, client, routes, dbOps, served,
                   wpc, cursor, rows, df, output, response, found, fetched, reads>>

DbDelete ==
    /\ writes < MaxWrites
    /\ collection # <<>>
    /\ collection' = Tail(collection)
    /\ writes' = writes + 1
    /\ UNCHANGED <<MONGO_URI, mainPc, client, routes, dbOps, served,
                   wpc, cursor, rows, df, output, response, found, fetched, reads>>

Next ==
    \/ LoadEnv
    \/ CheckUri
    \/ Connect
    \/ RegisterIndex
    \/ RegisterSpreadsheet
    \/ DbInsert
    \/ DbDelete
    \/ \E r \in Workers :
         \/ index(r)
         \/ EnterSpreadsheet(r)
         \/ Find(r)
         \/ FindFails(r)
         \/ LoopNext(r)
         \/ LoopFails(r)
         \/ LoopEnd(r)
         \/ BuildFrame(r)
         \/ WriteExcel(r)
         \/ SendFile(r)

Spec == Init /\ [][Next]_vars


(***************************************************************************)
(* Normalization of single records: the collection holds one document,     *)
(* drawn from every combination of the field values below, and one worker  *)
(* exports it.                                                             *)
(***************************************************************************)
Absent == [t |-> "absent"]

SimpleValues == {PyStr(strA), PyNone, PyInt(7)}

RegistrationValues ==
    {PyNone, EmptyStr, PyStr(<<"x">>), PyInt(42), PyInt(0), PyInt(0 - 7),
     PyBool(FALSE), PyBool(TRUE), PyList(<<>>), PyList(<<PyInt(1), PyStr(<<"a">>)>>),
     PyDatetime(2024, 3, 15, 10, 30, 0, 0), PyDatetime(2024, 1, 1, 0, 0, 0, 0),
     PyDatetime(1999, 12, 31, 23, 59, 59, 123000)}

MakeDoc(e, f, w, g) ==
    LET all == [_id |-> PyInt(1), email |-> e, fullname |-> f, whatsapp |-> w,
                registration |-> g]
    IN  [k \in {x \in DOMAIN all : all[x] # Absent} |-> all[k]]

RawDocs ==
    {MakeDoc(e, f, w, g) : e \in SimpleValues \cup {Absent},
                           f \in SimpleValues \cup {Absent},
                           w \in SimpleValues \cup {Absent},
                           g \in RegistrationValues \cup {Absent}}

InitNorm ==
    /\ MONGO_URI \in {u \in UriValues : Truthy(u)}
    /\ mainPc = "serving"
    /\ client = "constructed"
    /\ routes = {"/", "/spreadsheet"}
    /\ \E d \in RawDocs : collection = <<d>>
    /\ dbOps = {}
    /\ writes = 0
    /\ served = 0
    /\ InitWorkers

NextNorm ==
    \E r \in {"w1"} :
        \/ EnterSpreadsheet(r)
        \/ Find(r)
        \/ LoopNext(r)
        \/ LoopEnd(r)
        \/ BuildFrame(r)
        \/ WriteExcel(r)
        \/ SendFile(r)

SpecNorm == InitNorm /\ [][NextNorm]_vars


(***************************************************************************)
(* Properties of the normalized rows.                                      *)
(***************************************************************************)
\* the worker is between line 61 and line 97: its local `rows` is bound
HasRows(r) == wpc[r] \in {"loop", "frame", "excel", "send"}

\* the pairs (worker, i) such that the worker has appended its i-th row
Appended ==
    UNION {{<<r, i>> : i \in 1..(IF HasRows(r) THEN Len(rows[r]) ELSE 0)} : r \in Workers}

\* the record the i-th row of worker r was made from, and that row
RecordOf(p) == fetched[p[1]][p[2]]
RowOf(p) == rows[p[1]][p[2]]

IsDigit(c) == \E i \in 1..10 : Digits[i] = c
DigitVal(c) == (CHOOSE i \in 1..10 : Digits[i] = c) - 1

RECURSIVE ParseNat(_)
ParseNat(s) ==
    IF s = <<>> THEN 0
    ELSE ParseNat(SubSeq(s, 1, Len(s) - 1)) * 10 + DigitVal(s[Len(s)])

\* s[a..b] is a run of digits that reads as the number n
ReadsAs(s, a, b, n) ==
    /\ \A i \in a..b : IsDigit(s[i])
    /\ ParseNat(SubSeq(s, a, b)) = n

\* s is the ISO-8601 text YYYY-MM-DDTHH:MM:SS[.ffffff] of the date-time d
IsIso8601Of(s, d) ==
    /\ Len(s) = IF d.microsecond = 0 THEN 19 ELSE 26
    /\ s[5] = "-" /\ s[8] = "-" /\ s[11] = "T" /\ s[14] = ":" /\ s[17] = ":"
    /\ ReadsAs(s, 1, 4, d.year)
    /\ ReadsAs(s, 6, 7, d.month)
    /\ ReadsAs(s, 9, 10, d.day)
    /\ ReadsAs(s, 12, 13, d.hour)
    /\ ReadsAs(s, 15, 16, d.minute)
    /\ ReadsAs(s, 18, 19, d.second)
    /\ (d.microsecond # 0 => s[20] = "." /\ ReadsAs(s, 21, 26, d.microsecond))

\* C1: every field of every appended row is a str, whatever the record holds
C1_EveryFieldIsStr ==
    \A p \in Appended : \A j \in 1..Len(columns) : IsStr(RowOf(p)[columns[j]])

\* the string forms Python gives the non-empty, non-date-time values above
StrFormOf(x) ==
    CASE x = PyInt(42) -> <<"4", "2">>
      [] x = PyInt(0) -> <<"0">>
      [] x = PyInt(0 - 7) -> <<"-", "7">>
      [] x = PyBool(FALSE) -> <<"F", "a", "l", "s", "e">>
      [] x = PyBool(TRUE) -> <<"T", "r", "u", "e">>
      [] x = PyList(<<>>) -> <<"[", "]">>
      [] x = PyList(<<PyInt(1), PyStr(<<"a">>)>>) -> <<"[", "1", ",", " ", "'", "a", "'", "]">>
      [] OTHER -> x.v

\* C2: a registration that is present, not None, not "" and not a datetime
\* becomes its string form, which is a non-empty str; falsy values included
C2_OtherRegistrationIsStringified ==
    \A p \in Appended :
        LET doc == RecordOf(p)
        IN  ("registration" \in DOMAIN doc
             /\ doc.registration # PyNone
             /\ doc.registration # EmptyStr
             /\ ~IsDatetime(doc.registration))
            => /\ RowOf(p).registration = PyStr(StrFormOf(doc.registration))
               /\ RowOf(p).registration # EmptyStr

C2_Witness ==
    \E p \in Appended :
        /\ "registration" \in DOMAIN RecordOf(p)
        /\ RecordOf(p).registration = PyBool(FALSE)
        /\ RowOf(p).registration = PyStr(<<"F", "a", "l", "s", "e">>)

\* C3: a registration that is missing, None or "" becomes ""
C3_EmptyRegistrationIsEmpty ==
    \A p \in Appended :
        LET doc == RecordOf(p)
        IN  ("registration" \notin DOMAIN doc
             \/ doc.registration = PyNone
             \/ doc.registration = EmptyStr)
            => RowOf(p).registration = EmptyStr

C3_Witness ==
    \E p \in Appended :
        /\ "registration" \in DOMAIN RecordOf(p)
        /\ RecordOf(p).registration = PyNone
        /\ RowOf(p).registration = EmptyStr

\* C4: a registration that is a datetime becomes its ISO-8601 text
C4_DatetimeRegistrationIsIso ==
    \A p \in Appended :
        LET doc == RecordOf(p)
        IN  ("registration" \in DOMAIN doc /\ IsDatetime(doc.registration))
            => /\ IsStr(RowOf(p).registration)
               /\ IsIso8601Of(RowOf(p).registration.v, doc.registration.v)

C4_Witness ==
    \E p \in Appended :
        /\ "registration" \in DOMAIN RecordOf(p)
        /\ RecordOf(p).registration = PyDatetime(1999, 12, 31, 23, 59, 59, 123000)
        /\ Len(RowOf(p).registration.v) = 26

\* C5: email, fullname and whatsapp are "" when missing and the stored value
\* itself when present
C5_SimpleFieldsPassThrough ==
    \A p \in Appended :
        LET doc == RecordOf(p)
        IN  /\ \A k \in {"email", "fullname", "whatsapp"} :
                  RowOf(p)[k] = IF k \in DOMAIN doc THEN doc[k] ELSE EmptyStr
            /\ DOMAIN doc = {"email"}
               => RowOf(p) = [email |-> doc.email, fullname |-> EmptyStr,
                              whatsapp |-> EmptyStr, registration |-> EmptyStr]

C5_Witness ==
    \E p \in Appended :
        /\ DOMAIN RecordOf(p) = {"email"}
        /\ RowOf(p).email = PyStr(strA)
        /\ RowOf(p).fullname = EmptyStr


(***************************************************************************)
(* Properties of the export and of the service.                            *)
(***************************************************************************)
iso2024 == <<"2", "0", "2", "4", "-", "0", "1", "-", "0", "1", "T",
             "0", "0", ":", "0", "0", ":", "0", "0">>

\* the exported cells of the three stored documents, written out
ExpectedCells(doc) ==
    CASE doc.email = PyStr(strA) ->
           <<PyStr(strA), PyStr(<<"A">>), PyStr(<<"+", "1">>), PyStr(iso2024)>>
      [] doc.email = PyStr(strB) -> <<PyStr(strB), EmptyStr, EmptyStr, EmptyStr>>
      [] doc.email = PyStr(strC) -> <<PyStr(strC), EmptyStr, EmptyStr, PyStr(<<"4", "2">>)>>

ExpectedTable(docs) == [i \in 1..Len(docs) |-> ExpectedCells(docs[i])]

FourFields == {"email", "fullname", "whatsapp", "registration"}

\* the last response of worker r is an export
Exported(r) == wpc[r] = "idle" /\ response[r].kind = "xlsx"

\* C6: the export has the four columns in order and one data row per fetched
\* record, the i-th row made from the i-th record; none for an empty fetch
C6_ExportMatchesFetch ==
    \A r \in Workers :
        /\ wpc[r] \in {"excel", "send"}
           => /\ df[r].columns = <<"email", "fullname", "whatsapp", "registration">>
              /\ Len(df[r].data) = Len(fetched[r])
              /\ df[r].data = ExpectedTable(fetched[r])
        /\ wpc[r] = "send"
           => /\ output[r].header = <<"email", "fullname", "whatsapp", "registration">>
              /\ output[r].sheets = <<"users">>
              /\ output[r].cells = ExpectedTable(fetched[r])
        /\ Exported(r)
           => /\ response[r].body.header = <<"email", "fullname", "whatsapp", "registration">>
              /\ Len(response[r].body.cells) = Len(fetched[r])
              /\ response[r].body.cells = ExpectedTable(fetched[r])
              /\ fetched[r] = found[r]

C6_Witness ==
    \E r \in Workers :
        /\ Exported(r)
        /\ Len(found[r]) = 2
        /\ found[r][1].email = PyStr(strB)
        /\ found[r][2].email = PyStr(strA)
        /\ response[r].body.cells[2][4] = PyStr(iso2024)

\* C7: without a connection string the module-level code stops before the
\* client exists and before any route exists, and nothing is ever served
C7_MissingUriIsFatalAtStartup ==
    ~Truthy(MONGO_URI)
    => /\ mainPc \in {"load", "check", "crashed"}
       /\ client = "unset"
       /\ routes = {}
       /\ served = 0
       /\ \A r \in Workers : response[r] = NoResponse /\ wpc[r] = "idle"

C7_Witness == MONGO_URI = PyNone /\ mainPc = "crashed"

\* C8: a failed read ends the request with the framework's 500: the read is
\* issued once per request, an export is never made of part of the records,
\* and the worker can take the next request, which reads for itself
C8_FailedReadIsNotRecovered ==
    \A r \in Workers :
        /\ reads[r] <= 1
        /\ (wpc[r] = "idle" /\ response[r] = ServerError)
           => /\ mainPc = "serving"
              /\ served < MaxRequests => ENABLED EnterSpreadsheet(r)
        /\ Exported(r)
           => /\ reads[r] = 1
              /\ Len(response[r].body.cells) = Len(found[r])

C8_Witness ==
    \E r1, r2 \in Workers :
        /\ wpc[r1] = "idle"
        /\ response[r1] = ServerError
        /\ Len(found[r1]) = 2
        /\ Len(fetched[r1]) = 1
        /\ Exported(r2)

\* C9: at every point of every interleaving a worker's rows are made from
\* the records its own read returned, in order, and so is its response
C9_RowsAreRequestScoped ==
    \A r \in Workers :
        /\ HasRows(r)
           => /\ Len(rows[r]) = Len(fetched[r])
              /\ \A i \in 1..Len(rows[r]) :
                    <<rows[r][i].email, rows[r][i].fullname, rows[r][i].whatsapp,
                      rows[r][i].registration>> = ExpectedCells(fetched[r][i])
        /\ wpc[r] = "loop" => fetched[r] \o cursor[r] = found[r]
        /\ wpc[r] \in {"frame", "excel", "send"} => fetched[r] = found[r]
        /\ Exported(r) => response[r].body.cells = ExpectedTable(found[r])

C9_Witness ==
    \E r1, r2 \in Workers :
        /\ r1 # r2
        /\ wpc[r1] = "loop" /\ wpc[r2] = "loop"
        /\ found[r1] # found[r2]
        /\ Len(rows[r1]) >= 1 /\ Len(rows[r2]) >= 1

\* every stored document, cut down to the four named fields
AllDocsFourFields(coll) ==
    [i \in 1..Len(coll) |-> [k \in DOMAIN coll[i] \cap FourFields |-> coll[i][k]]]

\* C10: the only operation issued is find with no filter and the projection of
\* the four fields without _id; a change of the collection is always another
\* client's; each request's find returns the collection as it is at that moment
C10_ReadOnlyFreshReads ==
    /\ [](/\ dbOps \subseteq
               {[op |-> "find", filter |-> <<>>,
                 projection |-> [email |-> 1, fullname |-> 1, whatsapp |-> 1,
                                 registration |-> 1, _id |-> 0]]}
          /\ \A r \in Workers : \A i \in 1..Len(found[r]) :
                DOMAIN found[r][i] \subseteq FourFields)
    /\ [][/\ collection' # collection => writes' = writes + 1
          /\ \A r \in Workers :
                (wpc[r] = "find" /\ wpc'[r] = "loop")
                => found'[r] = AllDocsFourFields(collection)]_vars

C10_Witness ==
    \E r \in Workers :
        /\ Exported(r)
        /\ writes > 0
        /\ dbOps # {}
        /\ collection # <<>>
        /\ found[r] = AllDocsFourFields(collection)
        /\ \E q \in Workers : Exported(q) /\ found[q] # found[r]

====
